---- MODULE Spec2Model ----
(***************************************************************************)
(* A model of electrumsv_bsor/core.py: the BSOR encoder (dump / dumps) and *)
(* decoder (load / loads) driven by a DataclassDefinition.                 *)
(*                                                                         *)
(* Python strings that the code slices (type names) are sequences of       *)
(* one-character strings; byte strings are sequences of 0..255; Python     *)
(* values are records tagged with their Python type in field k.            *)
(* A raised exception is a record with ok = FALSE.                         *)
(***************************************************************************)
EXTENDS Integers, Sequences, FiniteSets, TLC

(***************************************************************************)
(* Bounds of the model.                                                    *)
(***************************************************************************)
\* Longest list value held by an instance.
MaxListLen == 2

\* Largest integer a wire token is overwritten with.
MaxWireInt == 3

(***************************************************************************)
(* Python string operations on type names.                                 *)
(***************************************************************************)
\* str.endswith
EndsWith(s, suf) ==
    /\ Len(s) >= Len(suf)
    /\ SubSeq(s, Len(s) - Len(suf) + 1, Len(s)) = suf

\* str.startswith
StartsWith(s, pre) ==
    /\ Len(s) >= Len(pre)
    /\ SubSeq(s, 1, Len(pre)) = pre

\* s[a:] with a >= 0 and s[:-b] with b > 0, combined: s[a:-b]
Slice(s, a, b) == SubSeq(s, a + 1, Len(s) - b)

NoneSuffix == <<" ", "|", " ", "N", "o", "n", "e">>
ListPrefix == <<"l", "i", "s", "t", "[">>
T_int == <<"i", "n", "t">>
T_float == <<"f", "l", "o", "a", "t">>
T_str == <<"s", "t", "r">>
T_bytes == <<"b", "y", "t", "e", "s">>
T_PublicKey == <<"P", "u", "b", "l", "i", "c", "K", "e", "y">>
T_XTestSubStruct ==
    <<"X", "T", "e", "s", "t", "S", "u", "b", "S", "t", "r", "u", "c", "t">>

(***************************************************************************)
(* Exceptions and Python values.                                           *)
(***************************************************************************)
Raise(e) == [ok |-> FALSE, err |-> e]

None == [k |-> "None"]
VInt(n) == [k |-> "int", v |-> n]
VFloat(x) == [k |-> "float", v |-> x]
VStr(s) == [k |-> "str", v |-> s]
VBytes(b) == [k |-> "bytes", v |-> b]
VList(l) == [k |-> "list", v |-> l]
\* bitcoinx.PublicKey: the point p
VPublicKey(p) == [k |-> "PublicKey", v |-> p]
\* an instance of dataclass cls with attributes attrs
VObj(cls, attrs) == [k |-> "obj", cls |-> cls, v |-> attrs]

hasattr(object_value, field_name) ==
    /\ object_value.k = "obj"
    /\ field_name \in DOMAIN object_value.v

getattr(object_value, field_name) == object_value.v[field_name]

(***************************************************************************)
(* The token stream (bitcoinx Script): a token is an opcode and the item   *)
(* it pushes.  push_item picks the minimal opcode for an item.             *)
(***************************************************************************)
PushOps == {"OP_0", "OP_1", "OP_N", "OP_1NEGATE", "PUSHDATA"}

push_item(item) ==
    [op |-> IF Len(item) = 0 THEN "OP_0"
            ELSE IF Len(item) = 1 /\ item[1] = 1 THEN "OP_1"
            ELSE IF Len(item) = 1 /\ item[1] \in 2..16 THEN "OP_N"
            ELSE IF item = <<129>> THEN "OP_1NEGATE"
            ELSE "PUSHDATA",
     item |-> item]

\* A non-push opcode: ops_and_items yields it with item None.
OpNoItem == [op |-> "OP_NOP", item |-> <<>>]

ItemIsNone(tok) == tok.op \notin PushOps

RECURSIVE LEBytes(_)
\* The little-endian magnitude bytes of n >= 0.
LEBytes(n) == IF n = 0 THEN <<>> ELSE <<n % 256>> \o LEBytes(n \div 256)

\* bitcoinx.int_to_item: minimal little-endian with a sign bit.
int_to_item(value) ==
    LET mag == LEBytes(IF value < 0 THEN -value ELSE value)
        n == Len(mag)
    IN  IF value = 0 THEN <<>>
        ELSE IF mag[n] >= 128
             THEN mag \o <<IF value < 0 THEN 128 ELSE 0>>
        ELSE IF value < 0 THEN [mag EXCEPT ![n] = mag[n] + 128]
        ELSE mag

RECURSIVE LEValue(_)
LEValue(b) == IF b = <<>> THEN 0 ELSE b[1] + 256 * LEValue(Tail(b))

\* bitcoinx.item_to_int
item_to_int(item) ==
    LET n == Len(item)
    IN  IF n = 0 THEN 0
        ELSE IF item[n] >= 128
             THEN -LEValue([item EXCEPT ![n] = item[n] - 128])
        ELSE LEValue(item)

push_int(value) == push_item(int_to_item(value))

(***************************************************************************)
(* str.encode() / bytes.decode("utf-8") for code points below 2048.        *)
(***************************************************************************)
RECURSIVE utf8_encode(_)
utf8_encode(s) ==
    IF s = <<>> THEN <<>>
    ELSE (IF s[1] < 128 THEN <<s[1]>>
          ELSE <<192 + (s[1] \div 64), 128 + (s[1] % 64)>>)
         \o utf8_encode(Tail(s))

RECURSIVE utf8_decode(_)
\* [ok, v]: the code points, or a UnicodeDecodeError
utf8_decode(b) ==
    IF b = <<>> THEN [ok |-> TRUE, v |-> <<>>]
    ELSE IF b[1] < 128
         THEN LET r == utf8_decode(Tail(b))
              IN  IF r.ok THEN [ok |-> TRUE, v |-> <<b[1]>> \o r.v] ELSE r
    ELSE IF /\ b[1] \in 194..223
            /\ Len(b) >= 2
            /\ b[2] \in 128..191
         THEN LET r == utf8_decode(Tail(Tail(b)))
              IN  IF r.ok
                  THEN [ok |-> TRUE,
                        v |-> <<(b[1] - 192) * 64 + (b[2] - 128)>> \o r.v]
                  ELSE r
    ELSE Raise("UnicodeDecodeError")

(***************************************************************************)
(* struct.pack / struct.unpack.  A Python float is a double; doubles are   *)
(* modelled as integers and the float32 values as the even ones, so that   *)
(* "<f" rounds (to the even neighbour below) and "<d" is exact.            *)
(***************************************************************************)
struct_pack_f(x) == <<(x \div 2) % 256, (x \div 2) \div 256, 0, 0>>
struct_unpack_f(b) == 2 * (b[1] + 256 * b[2])
struct_pack_d(x) == <<x % 256, x \div 256, 0, 0, 0, 0, 0, 0>>
struct_unpack_d(b) == b[1] + 256 * b[2]

(***************************************************************************)
(* The custom scalar of the tests: bitcoinx.PublicKey.  A key is the point *)
(* p; its compressed form is <<2, p>>, its uncompressed form <<4, p, p>>.  *)
(***************************************************************************)
\* PublicKey.from_bytes
PublicKey_from_bytes(b) ==
    IF Len(b) = 2 /\ b[1] = 2 THEN [ok |-> TRUE, v |-> VPublicKey(b[2])]
    ELSE IF Len(b) = 3 /\ b[1] = 4 /\ b[2] = b[3]
         THEN [ok |-> TRUE, v |-> VPublicKey(b[2])]
    ELSE Raise("ValueError: invalid public key")

\* lambda instance: instance.to_bytes, then the call of what it returns
PublicKey_to_bytes(value) ==
    IF value.k = "PublicKey" THEN [ok |-> TRUE, v |-> <<2, value.v>>]
    ELSE Raise("AttributeError: to_bytes")

(***************************************************************************)
(* Field types and the schema model.                                       *)
(***************************************************************************)
FieldType == {"INTEGER", "FLOAT", "DOUBLE", "LIST", "STRING", "BYTES", "OBJECT"}

TYPE_DEFAULTS ==
    [STRING |-> VStr(<<>>), BYTES |-> VBytes(<<>>), INTEGER |-> VInt(0)]

FieldTypeMetadata(field_type, is_class_reference, stores_pointers) ==
    [field_type |-> field_type,
     is_class_reference |-> is_class_reference,
     stores_pointers |-> stores_pointers]

FieldEntry(identifier, type_metadata) ==
    [identifier |-> identifier, type_metadata |-> type_metadata]

\* dataclasses.field(metadata=...) of an attribute declared "name: type"
DataclassField(name, type, metadata) ==
    [name |-> name, type |-> type, metadata |-> metadata]

\* The nested structure of the tests.
XTestSubStruct ==
    [name |-> "XTestSubStruct",
     fields |-> <<DataclassField("SubIntField", T_int, [bsor_id |-> 1]),
                  DataclassField("SubStringField", T_str, [bsor_id |-> 2])>>]

\* The custom-scalar binding table of the tests:
\* type name -> (decoder or class, encoder factory, field type)
structure_metadata ==
    (T_PublicKey :>
        <<[k |-> "callable", name |-> "PublicKey.from_bytes"],
          [k |-> "callable", name |-> "lambda instance: instance.to_bytes"],
          "BYTES">>)
    @@ (T_XTestSubStruct :> <<XTestSubStruct, None, "OBJECT">>)

map_type_name_to_field_type(type_name_in, class_references, field) ==
    LET stores_pointers == EndsWith(type_name_in, NoneSuffix)
        type_name == IF stores_pointers THEN Slice(type_name_in, 0, 7)
                     ELSE type_name_in
    IN  IF type_name = T_int
        THEN [ok |-> TRUE,
              v |-> FieldTypeMetadata("INTEGER", FALSE, stores_pointers)]
        ELSE IF type_name = T_float
        THEN IF field = None
             THEN [ok |-> TRUE, v |-> FieldTypeMetadata("FLOAT", FALSE, FALSE)]
             ELSE LET field_type ==
                          IF "bsor_type" \in DOMAIN field.metadata
                          THEN field.metadata.bsor_type
                          ELSE "FLOAT"
                  IN  IF field_type \notin {"FLOAT", "DOUBLE"}
                      THEN Raise("AssertionError")
                      ELSE [ok |-> TRUE,
                            v |-> FieldTypeMetadata(field_type, FALSE,
                                                    stores_pointers)]
        ELSE IF StartsWith(type_name, ListPrefix)
        THEN [ok |-> TRUE,
              v |-> FieldTypeMetadata("LIST", FALSE, stores_pointers)]
        ELSE IF type_name = T_str
        THEN [ok |-> TRUE,
              v |-> FieldTypeMetadata("STRING", FALSE, stores_pointers)]
        ELSE IF type_name = T_bytes
        THEN [ok |-> TRUE,
              v |-> FieldTypeMetadata("BYTES", FALSE, stores_pointers)]
        ELSE IF type_name \in DOMAIN class_references
        THEN [ok |-> TRUE,
              v |-> FieldTypeMetadata(class_references[type_name][3], TRUE,
                                      stores_pointers)]
        ELSE Raise("Exception: Unknown type")

\* One pass of the loop of DataclassDefinition.__init__: the entry of
\* dataclass_field, of type field_type_data, before those of the rest.
BuildField(dataclass_field, field_type_data, rest) ==
    IF ~field_type_data.ok THEN field_type_data
    ELSE IF ~rest.ok THEN rest
    ELSE [ok |-> TRUE,
          v |-> <<[name |-> dataclass_field.name,
                   entry |-> FieldEntry(dataclass_field.metadata.bsor_id,
                                        field_type_data.v)]>>
                \o rest.v]

RECURSIVE BuildFields(_, _, _)
\* The loop of DataclassDefinition.__init__ from field i on.
BuildFields(dataclass_fields, class_references, i) ==
    IF i > Len(dataclass_fields) THEN [ok |-> TRUE, v |-> <<>>]
    ELSE IF "bsor_id" \notin DOMAIN dataclass_fields[i].metadata
    THEN Raise("AssertionError")
    ELSE BuildField(dataclass_fields[i],
                    map_type_name_to_field_type(dataclass_fields[i].type,
                                                class_references,
                                                dataclass_fields[i]),
                    BuildFields(dataclass_fields, class_references, i + 1))

\* The object __init__ leaves, given the field list it built.
DefinitionOf(dataclass_object, class_references, fields) ==
    IF ~fields.ok THEN fields
    ELSE [ok |-> TRUE,
          v |-> [dataclass_object |-> dataclass_object,
                 class_references |-> class_references,
                 fields |-> fields.v]]

\* DataclassDefinition.__init__: the ids met are collected in
\* encountered_identifiers and never looked at.
DataclassDefinition(dataclass_object, class_references) ==
    DefinitionOf(dataclass_object, class_references,
                 BuildFields(dataclass_object.fields, class_references, 1))

\* The first declared field carrying the identifier, 0 when there is none.
FirstWithId(definition, field_identifier) ==
    LET hits == {i \in 1..Len(definition.fields) :
                    definition.fields[i].entry.identifier = field_identifier}
    IN  IF hits = {} THEN 0
        ELSE CHOOSE i \in hits : \A j \in hits : i <= j

get_field(definition, field_identifier) ==
    LET i == FirstWithId(definition, field_identifier)
    IN  IF i = 0 THEN Raise("ValueError: Field not found")
        ELSE [ok |-> TRUE, v |-> definition.fields[i]]

get_fields(definition) == definition.fields

\* A lookup that falls back on the first declared field.
get_field_entryLenient(definition, field_identifier) ==
    LET i == FirstWithId(definition, field_identifier)
    IN  [ok |-> TRUE,
         v |-> definition.fields[IF i = 0 THEN 1 ELSE i].entry]

get_field_entry(definition, field_identifier) ==
    LET i == FirstWithId(definition, field_identifier)
    IN  IF i = 0 THEN Raise("ValueError: Unexpected field identifier")
        ELSE [ok |-> TRUE, v |-> definition.fields[i].entry]

\* __dataclass_fields__[name]
DataclassFieldNamed(dataclass_object, name) ==
    LET i == CHOOSE i \in 1..Len(dataclass_object.fields) :
                 dataclass_object.fields[i].name = name
    IN  dataclass_object.fields[i]

get_field_value(definition, field_identifier) ==
    LET i == FirstWithId(definition, field_identifier)
    IN  IF i = 0 THEN Raise("ValueError: Unexpected field identifier")
        ELSE
        LET field == DataclassFieldNamed(definition.dataclass_object,
                                         definition.fields[i].name)
            listed == IF StartsWith(field.type, ListPrefix)
                      THEN Slice(field.type, 5, 1) ELSE field.type
            field_type_name == IF EndsWith(listed, NoneSuffix)
                               THEN Slice(listed, 0, 7) ELSE listed
        IN  IF field.type \in {T_int, T_float, T_str, T_bytes}
            \* getattr of the class: the attribute has no default
            THEN Raise("AttributeError")
            ELSE IF field_type_name \notin DOMAIN definition.class_references
            THEN Raise("KeyError")
            ELSE [ok |-> TRUE,
                  v |-> <<definition.class_references[field_type_name][1],
                          definition.class_references[field_type_name][2]>>]

\* What get_list_constraint returns for the field it found, given the type
\* data of its items.
ListConstraint(definition, field_identifier, field, field_type_data) ==
    IF ~field_type_data.ok THEN field_type_data
    ELSE [ok |-> TRUE,
          v |-> [list_definition |-> definition,
                 item_field_entry |->
                     FieldEntry(field_identifier, field_type_data.v),
                 item_count |-> IF "bsor_length" \in DOMAIN field.metadata
                                THEN VInt(field.metadata.bsor_length)
                                ELSE None]]

get_list_constraint(definition, field_identifier) ==
    LET i == FirstWithId(definition, field_identifier)
    IN  IF i = 0 THEN Raise("ValueError: Unexpected field identifier")
        ELSE ListConstraint(
                 definition, field_identifier,
                 DataclassFieldNamed(definition.dataclass_object,
                                     definition.fields[i].name),
                 map_type_name_to_field_type(
                     Slice(DataclassFieldNamed(definition.dataclass_object,
                                               definition.fields[i].name).type,
                           5, 1),
                     definition.class_references, None))

\* get_definition, given what get_field_value returned.
DefinitionFor(definition, callables) ==
    IF ~callables.ok THEN callables
    ELSE IF callables.v[2] # None THEN Raise("AssertionError")
    ELSE DataclassDefinition(callables.v[1], definition.class_references)

get_definition(definition, field_identifier) ==
    DefinitionFor(definition, get_field_value(definition, field_identifier))

(***************************************************************************)
(* The encoder.  What is written to the stream is a sequence of events,    *)
(* one per stream.write, each naming the place that wrote it (site), the   *)
(* token written (tok) and the nesting depth of the _write_structure call  *)
(* it belongs to; a "count" event also names the class and the object of   *)
(* its call, and a returning _write_structure leaves an "end" event,       *)
(* which writes no token.  An encoder result is [ok, ev, err]: the events  *)
(* written, also when an exception ends the call.                          *)
(***************************************************************************)
Written(ev) == [ok |-> TRUE, ev |-> ev, err |-> ""]
Failed(ev, err) == [ok |-> FALSE, ev |-> ev, err |-> err]

\* The writes `head`, then those of the call with result r.
WrittenBefore(head, r) == [r EXCEPT !.ev = head \o r.ev]

\* One stream.write(push_item(item)).
WriteEvent(site, item, depth, field_identifier) ==
    <<[site |-> site, tok |-> push_item(item), depth |-> depth,
       id |-> field_identifier]>>

\* The tokens of a sequence of events, as the stream holds them.
RECURSIVE Tokens(_)
Tokens(ev) ==
    IF ev = <<>> THEN <<>>
    ELSE (IF ev[1].site = "end" THEN <<>> ELSE <<ev[1].tok>>)
         \o Tokens(Tail(ev))

\* The filter of _write_structure: whether a declared field is written.
Survives(named_field, object_value) ==
    /\ hasattr(object_value, named_field.name)
    /\ LET field_value == getattr(object_value, named_field.name)
           type_metadata == named_field.entry.type_metadata
       IN  ~ /\ type_metadata.field_type \in DOMAIN TYPE_DEFAULTS
             /\ IF type_metadata.stores_pointers
                THEN field_value = None
                ELSE field_value = TYPE_DEFAULTS[type_metadata.field_type]

\* The list `fields` that the first loop of _write_structure leaves.
SurvivingFields(definition, object_value) ==
    SelectSeq(get_fields(definition),
              LAMBDA named_field : Survives(named_field, object_value))

\* The count of the declared fields, taken before the filter.
StructureCountDeclared(definition, fields) ==
    push_int(Len(get_fields(definition)))

\* The count token written for the surviving fields.
StructureCount(definition, fields) == push_int(Len(fields))

\* encoder_callable_factory(field_value)()
CallEncoderFactory(encoder_callable_factory, field_value) ==
    IF encoder_callable_factory = None
    THEN Raise("TypeError: 'NoneType' object is not callable")
    ELSE IF field_value.k # "PublicKey" THEN PublicKey_to_bytes(field_value)
    ELSE [ok |-> TRUE, v |-> VBytes(PublicKey_to_bytes(field_value).v)]

\* The first branch of _write_type: the value of a custom scalar is
\* replaced by what its encoder gives.
Converted(field_type_metadata, field_value, callables) ==
    IF ~(field_type_metadata.is_class_reference
         /\ field_type_metadata.field_type # "OBJECT")
    THEN [ok |-> TRUE, v |-> field_value]
    ELSE IF ~callables.ok THEN callables
    ELSE IF field_type_metadata.field_type = "BYTES"
    THEN CallEncoderFactory(callables.v[2], field_value)
    ELSE Raise("NotImplementedError")

RECURSIVE _write_structure(_, _, _)
RECURSIVE WriteFieldsFrom(_, _, _, _, _)
RECURSIVE _write_type(_, _, _, _, _)
RECURSIVE WriteItemsFrom(_, _, _, _, _, _)

_write_field(definition, field_identifier, field_type_metadata, field_value, depth) ==
    WrittenBefore(WriteEvent("id", int_to_item(field_identifier), depth,
                             field_identifier),
                  _write_type(definition, field_identifier,
                              field_type_metadata, field_value, depth))

\* The rest of the second loop of _write_structure, field i written.
WriteFieldsAfter(definition, object_value, fields, i, depth, this) ==
    IF ~this.ok THEN this
    ELSE WrittenBefore(this.ev,
                       WriteFieldsFrom(definition, object_value, fields,
                                       i + 1, depth))

\* The second loop of _write_structure from surviving field i on.
WriteFieldsFrom(definition, object_value, fields, i, depth) ==
    IF i > Len(fields) THEN Written(<<>>)
    ELSE WriteFieldsAfter(
             definition, object_value, fields, i, depth,
             IF hasattr(object_value, fields[i].name)
             THEN _write_field(definition, fields[i].entry.identifier,
                               fields[i].entry.type_metadata,
                               getattr(object_value, fields[i].name), depth)
             ELSE Written(<<>>))

\* _write_structure, its count written and its fields written as `body`.
StructureWritten(head, body, depth) ==
    IF body.ok
    THEN Written(head \o body.ev \o <<[site |-> "end", depth |-> depth]>>)
    ELSE Failed(head \o body.ev, body.err)

_write_structure(definition, object_value, depth) ==
    StructureWritten(
        <<[site |-> "count",
           tok |-> StructureCount(definition,
                                  SurvivingFields(definition, object_value)),
           depth |-> depth,
           class_object |-> definition.dataclass_object,
           object_value |-> object_value]>>,
        WriteFieldsFrom(definition, object_value,
                        SurvivingFields(definition, object_value), 1, depth),
        depth)

\* One pass of the list loop of _write_type: the item of one slot.
WriteItem(list_definition, field_identifier, item_field_entry, item_value, depth) ==
    IF item_field_entry.type_metadata.stores_pointers /\ item_value = None
    THEN Written(WriteEvent("nil", int_to_item(0), depth, field_identifier))
    ELSE WrittenBefore(
             IF item_field_entry.type_metadata.stores_pointers
             THEN WriteEvent("present", int_to_item(1), depth,
                             field_identifier)
             ELSE <<>>,
             _write_type(list_definition, field_identifier,
                         item_field_entry.type_metadata, item_value, depth))

\* The rest of the list loop, item i written.
WriteItemsAfter(list_definition, field_identifier, item_field_entry, items, i, depth, this) ==
    IF ~this.ok THEN this
    ELSE WrittenBefore(this.ev,
                       WriteItemsFrom(list_definition, field_identifier,
                                      item_field_entry, items, i + 1, depth))

\* The loop of _write_type over the items of a list from item i on.
WriteItemsFrom(list_definition, field_identifier, item_field_entry, items, i, depth) ==
    IF i > Len(items) THEN Written(<<>>)
    ELSE WriteItemsAfter(list_definition, field_identifier, item_field_entry,
                         items, i, depth,
                         WriteItem(list_definition, field_identifier,
                                   item_field_entry, items[i], depth))

\* The LIST branch of _write_type, given the list constraint.
WriteList(field_identifier, field_value, depth, constraint) ==
    IF ~constraint.ok THEN Failed(<<>>, constraint.err)
    ELSE IF field_value.k # "list" THEN Failed(<<>>, "TypeError")
    ELSE WrittenBefore(
             IF constraint.v.item_count = None
             THEN WriteEvent("len", int_to_item(Len(field_value.v)), depth,
                             field_identifier)
             ELSE <<>>,
             WriteItemsFrom(constraint.v.list_definition, field_identifier,
                            constraint.v.item_field_entry, field_value.v, 1,
                            depth))

\* The OBJECT branch of _write_type, given the nested definition.
WriteObject(field_value, depth, next_definition) ==
    IF ~next_definition.ok THEN Failed(<<>>, next_definition.err)
    ELSE _write_structure(next_definition.v, field_value, depth + 1)

\* The dispatch of _write_type on the field type.
WriteValue(definition, field_identifier, field_type, field_value, depth) ==
    CASE field_type = "INTEGER" ->
            IF field_value.k # "int" THEN Failed(<<>>, "TypeError")
            ELSE Written(WriteEvent("value", int_to_item(field_value.v),
                                    depth, field_identifier))
      [] field_type = "FLOAT" ->
            IF field_value.k # "float" THEN Failed(<<>>, "struct.error")
            ELSE Written(WriteEvent("value", struct_pack_f(field_value.v),
                                    depth, field_identifier))
      [] field_type = "DOUBLE" ->
            IF field_value.k # "float" THEN Failed(<<>>, "struct.error")
            ELSE Written(WriteEvent("value", struct_pack_d(field_value.v),
                                    depth, field_identifier))
      [] field_type = "BYTES" ->
            IF field_value.k # "bytes" THEN Failed(<<>>, "TypeError")
            ELSE Written(WriteEvent("value", field_value.v, depth,
                                    field_identifier))
      [] field_type = "STRING" ->
            IF field_value.k # "str" THEN Failed(<<>>, "AttributeError")
            ELSE Written(WriteEvent("value", utf8_encode(field_value.v),
                                    depth, field_identifier))
      [] field_type = "LIST" ->
            WriteList(field_identifier, field_value, depth,
                      get_list_constraint(definition, field_identifier))
      [] field_type = "OBJECT" ->
            WriteObject(field_value, depth,
                        get_definition(definition, field_identifier))
      [] OTHER -> Failed(<<>>, "NotImplementedError")

\* _write_type after its first branch.
WriteConverted(definition, field_identifier, field_type, depth, converted) ==
    IF ~converted.ok THEN Failed(<<>>, converted.err)
    ELSE WriteValue(definition, field_identifier, field_type, converted.v,
                    depth)

_write_type(definition, field_identifier, field_type_metadata, field_value, depth) ==
    WriteConverted(definition, field_identifier,
                   field_type_metadata.field_type, depth,
                   Converted(field_type_metadata, field_value,
                             get_field_value(definition, field_identifier)))

\* dump, given the Definition built from the object's class.
DumpWith(definition, object) ==
    IF ~definition.ok THEN Failed(<<>>, definition.err)
    ELSE _write_structure(definition.v, object, 0)

\* dumps (and dump)
dumps(object, class_object, structure_metadata_in) ==
    DumpWith(DataclassDefinition(class_object, structure_metadata_in), object)

(***************************************************************************)
(* The decoder.  The generator is the token sequence toks and the number   *)
(* pos of tokens already taken from it.  A decoder result is               *)
(* [ok, v, rd, err]: the value, and one event per token the call took      *)
(* with next(generator), also when an exception ends the call; a "count"   *)
(* and an "id" event also name the class being decoded.  The streams of    *)
(* the model hold push tokens only.                                        *)
(***************************************************************************)
Got(v, rd) == [ok |-> TRUE, v |-> v, rd |-> rd, err |-> ""]
Bad(rd, err) == [ok |-> FALSE, v |-> None, rd |-> rd, err |-> err]

\* The reads `head`, then those of the call with result r.
ReadBefore(head, r) == [r EXCEPT !.rd = head \o r.rd]

\* Whether next(generator) yields a token.
HasNext(toks, pos) == pos < Len(toks)

\* One next(generator).
ReadEvent(site, toks, pos, depth, field_identifier) ==
    <<[site |-> site, tok |-> toks[pos + 1], depth |-> depth,
       id |-> field_identifier]>>

\* decode_callable(value_bytes)
CallDecoder(decode_callable, tok) ==
    IF decode_callable.k # "callable"
    THEN Raise("TypeError: __init__() takes keyword arguments")
    ELSE IF ItemIsNone(tok) THEN Raise("TypeError")
    ELSE PublicKey_from_bytes(tok.item)

\* class_reference(**kwargs): the generated __init__ of a dataclass none of
\* whose fields declares a default.
Construct(class_reference, kwargs) ==
    IF "fields" \notin DOMAIN class_reference
    THEN Raise("TypeError: not a dataclass")
    ELSE IF \E i \in 1..Len(class_reference.fields) :
                class_reference.fields[i].name \notin DOMAIN kwargs
    THEN Raise("TypeError: __init__() missing required argument")
    ELSE [ok |-> TRUE, v |-> VObj(class_reference.name, kwargs)]

\* A back-fill that gives every type a value.
BackfillValueAlways(type_metadata) ==
    IF type_metadata.stores_pointers THEN <<None>>
    ELSE IF type_metadata.field_type \in DOMAIN TYPE_DEFAULTS
    THEN <<TYPE_DEFAULTS[type_metadata.field_type]>>
    ELSE <<VInt(0)>>

\* The value back-filled for a declared field that was not read; none for
\* a non-pointer field whose type has no default.
BackfillValue(type_metadata) ==
    IF type_metadata.stores_pointers THEN <<None>>
    ELSE IF type_metadata.field_type \in DOMAIN TYPE_DEFAULTS
    THEN <<TYPE_DEFAULTS[type_metadata.field_type]>>
    ELSE <<>>

\* Whether the back-fill loop assigns the declared field.
Backfilled(named_field, kwargs) ==
    /\ named_field.name \notin DOMAIN kwargs
    /\ BackfillValue(named_field.entry.type_metadata) # <<>>

RECURSIVE BackfillFrom(_, _, _)
\* The second loop of _read_structure from declared field i on.
BackfillFrom(definition, kwargs, i) ==
    IF i > Len(get_fields(definition)) THEN kwargs
    ELSE BackfillFrom(
             definition,
             IF Backfilled(get_fields(definition)[i], kwargs)
             THEN (get_fields(definition)[i].name :>
                     BackfillValue(
                         get_fields(definition)[i].entry.type_metadata)[1])
                  @@ kwargs
             ELSE kwargs,
             i + 1)

RECURSIVE _read_structure(_, _, _, _, _)
RECURSIVE ReadFieldsFrom(_, _, _, _, _, _)
RECURSIVE _read_type(_, _, _, _, _)
RECURSIVE ReadItemsFrom(_, _, _, _, _, _)

\* _read_field, its value read as field_value after the id event `head`.
FieldRead(field_identifier, head, field_value) ==
    IF ~field_value.ok THEN Bad(head \o field_value.rd, field_value.err)
    ELSE Got(<<field_identifier, field_value.v>>, head \o field_value.rd)

\* _read_field, the id token taken and looked up.
ReadFieldWith(toks, pos, definition, depth, head, field_entry) ==
    IF ~field_entry.ok THEN Bad(head, field_entry.err)
    ELSE FieldRead(head[1].id, head,
                   _read_type(toks, pos + 1, definition, field_entry.v,
                              depth))

_read_field(toks, pos, definition, depth) ==
    IF ~HasNext(toks, pos) THEN Bad(<<>>, "StopIteration")
    ELSE ReadFieldWith(
             toks, pos, definition, depth,
             <<[site |-> "id", tok |-> toks[pos + 1], depth |-> depth,
                id |-> item_to_int(toks[pos + 1].item),
                class_object |-> definition.dataclass_object]>>,
             get_field_entry(definition, item_to_int(toks[pos + 1].item)))

\* kwargs[field_name] = field_value, then the rest of the read loop.
StoreField(toks, pos, definition, remaining, kwargs, depth, field, named_field) ==
    IF ~named_field.ok THEN Bad(field.rd, named_field.err)
    ELSE ReadBefore(field.rd,
                    ReadFieldsFrom(toks, pos + Len(field.rd), definition,
                                   remaining - 1,
                                   (named_field.v.name :> field.v[2])
                                       @@ kwargs,
                                   depth))

\* The rest of the read loop of _read_structure, one field read.
ReadFieldsAfter(toks, pos, definition, remaining, kwargs, depth, field) ==
    IF ~field.ok THEN field
    ELSE StoreField(toks, pos, definition, remaining, kwargs, depth, field,
                    get_field(definition, field.v[1]))

\* A read loop that goes on while the stream has tokens.
ReadFieldsFromGreedy(toks, pos, definition, remaining, kwargs, depth) ==
    IF remaining <= 0 /\ ~HasNext(toks, pos) THEN Got(kwargs, <<>>)
    ELSE ReadFieldsAfter(toks, pos, definition, remaining, kwargs, depth,
                         _read_field(toks, pos, definition, depth))

\* The first loop of _read_structure with `remaining` fields still to read.
ReadFieldsFrom(toks, pos, definition, remaining, kwargs, depth) ==
    IF remaining <= 0 THEN Got(kwargs, <<>>)
    ELSE ReadFieldsAfter(toks, pos, definition, remaining, kwargs, depth,
                         _read_field(toks, pos, definition, depth))

\* The return of _read_structure: the instance constructed.
Constructed(rd, instance) ==
    IF ~instance.ok THEN Bad(rd, instance.err) ELSE Got(instance.v, rd)

\* _read_structure, its count taken and its fields read as `read`.
StructureRead(definition, class_reference, head, read) ==
    IF ~read.ok THEN Bad(head \o read.rd, read.err)
    ELSE Constructed(head \o read.rd,
                     Construct(class_reference,
                               BackfillFrom(definition, read.v, 1)))

_read_structure(toks, pos, definition, class_reference, depth) ==
    IF ~HasNext(toks, pos) THEN Bad(<<>>, "StopIteration")
    ELSE StructureRead(
             definition, class_reference,
             <<[site |-> "count", tok |-> toks[pos + 1], depth |-> depth,
                class_object |-> definition.dataclass_object]>>,
             ReadFieldsFrom(toks, pos + 1, definition,
                            item_to_int(toks[pos + 1].item),
                            [n \in {} |-> None], depth))

\* One pass of the list loop of _read_type: the item of one slot.
ReadItem(toks, pos, list_definition, item_field_entry, depth) ==
    IF ~item_field_entry.type_metadata.stores_pointers
    THEN _read_type(toks, pos, list_definition, item_field_entry, depth)
    ELSE IF ~HasNext(toks, pos) THEN Bad(<<>>, "StopIteration")
    ELSE IF toks[pos + 1].op = "OP_0"
    THEN Got(None, ReadEvent("flag", toks, pos, depth,
                             item_field_entry.identifier))
    ELSE IF toks[pos + 1].op # "OP_1"
    THEN Bad(ReadEvent("flag", toks, pos, depth, item_field_entry.identifier),
             "ValueError: List of pointers prefix")
    ELSE ReadBefore(ReadEvent("flag", toks, pos, depth,
                              item_field_entry.identifier),
                    _read_type(toks, pos + 1, list_definition,
                               item_field_entry, depth))

\* The list read so far: the item `this` before the items `rest`.
ItemsRead(this, rest) ==
    IF ~rest.ok THEN Bad(this.rd \o rest.rd, rest.err)
    ELSE Got(<<this.v>> \o rest.v, this.rd \o rest.rd)

\* The rest of the list loop, one slot read.
ReadItemsAfter(toks, pos, list_definition, item_field_entry, remaining, depth, this) ==
    IF ~this.ok THEN this
    ELSE ItemsRead(this,
                   ReadItemsFrom(toks, pos + Len(this.rd), list_definition,
                                 item_field_entry, remaining - 1, depth))

\* The loop of _read_type over the slots of a list, `remaining` to read.
ReadItemsFrom(toks, pos, list_definition, item_field_entry, remaining, depth) ==
    IF remaining <= 0 THEN Got(<<>>, <<>>)
    ELSE ReadItemsAfter(toks, pos, list_definition, item_field_entry,
                        remaining, depth,
                        ReadItem(toks, pos, list_definition, item_field_entry,
                                 depth))

\* The first branch of _read_type: a custom scalar.
ReadCustom(toks, pos, field_entry, depth, callables) ==
    IF ~callables.ok THEN Bad(<<>>, callables.err)
    ELSE IF ~HasNext(toks, pos) THEN Bad(<<>>, "StopIteration")
    ELSE Constructed(ReadEvent("value", toks, pos, depth,
                               field_entry.identifier),
                     CallDecoder(callables.v[1], toks[pos + 1]))

\* The scalar branches of _read_type: one token, and its value.
ReadScalar(toks, pos, field_entry, depth) ==
    LET tok == toks[pos + 1]
        field_type == field_entry.type_metadata.field_type
        value ==
            CASE field_type = "INTEGER" ->
                    [ok |-> TRUE, v |-> VInt(item_to_int(tok.item))]
              [] field_type = "FLOAT" ->
                    IF ItemIsNone(tok) \/ Len(tok.item) # 4
                    THEN Raise("ValueError: Invalid float length")
                    ELSE [ok |-> TRUE, v |-> VFloat(struct_unpack_f(tok.item))]
              [] field_type = "DOUBLE" ->
                    IF ItemIsNone(tok) \/ Len(tok.item) # 8
                    THEN Raise("ValueError: Invalid float length")
                    ELSE [ok |-> TRUE, v |-> VFloat(struct_unpack_d(tok.item))]
              [] field_type = "BYTES" ->
                    [ok |-> TRUE,
                     v |-> IF ItemIsNone(tok) THEN None ELSE VBytes(tok.item)]
              [] field_type = "STRING" ->
                    IF ItemIsNone(tok) THEN Raise("ValueError: Invalid string")
                    ELSE IF ~utf8_decode(tok.item).ok
                    THEN utf8_decode(tok.item)
                    ELSE [ok |-> TRUE, v |-> VStr(utf8_decode(tok.item).v)]
    IN  IF ~HasNext(toks, pos) THEN Bad(<<>>, "StopIteration")
        ELSE Constructed(ReadEvent("value", toks, pos, depth,
                                   field_entry.identifier),
                         value)

\* The list of _read_type read as `items` after the reads `head`.
ListRead(head, items) ==
    IF ~items.ok THEN Bad(head \o items.rd, items.err)
    ELSE Got(VList(items.v), head \o items.rd)

\* The LIST branch of _read_type, given the list constraint.
ReadList(toks, pos, field_entry, depth, constraint) ==
    IF ~constraint.ok THEN Bad(<<>>, constraint.err)
    ELSE IF constraint.v.item_count # None
    THEN ListRead(<<>>,
                  ReadItemsFrom(toks, pos, constraint.v.list_definition,
                                constraint.v.item_field_entry,
                                constraint.v.item_count.v, depth))
    ELSE IF ~HasNext(toks, pos) THEN Bad(<<>>, "StopIteration")
    ELSE ListRead(ReadEvent("len", toks, pos, depth, field_entry.identifier),
                  ReadItemsFrom(toks, pos + 1, constraint.v.list_definition,
                                constraint.v.item_field_entry,
                                item_to_int(toks[pos + 1].item), depth))

\* The OBJECT branch of _read_type, given the nested definition and class.
ReadObject(toks, pos, depth, next_definition, class_reference) ==
    IF ~next_definition.ok THEN Bad(<<>>, next_definition.err)
    ELSE _read_structure(toks, pos, next_definition.v, class_reference.v[1],
                         depth + 1)

_read_type(toks, pos, definition, field_entry, depth) ==
    IF field_entry.type_metadata.is_class_reference
       /\ field_entry.type_metadata.field_type # "OBJECT"
    THEN ReadCustom(toks, pos, field_entry, depth,
                    get_field_value(definition, field_entry.identifier))
    ELSE IF field_entry.type_metadata.field_type
            \in {"INTEGER", "FLOAT", "DOUBLE", "BYTES", "STRING"}
    THEN ReadScalar(toks, pos, field_entry, depth)
    ELSE IF field_entry.type_metadata.field_type = "LIST"
    THEN ReadList(toks, pos, field_entry, depth,
                  get_list_constraint(definition, field_entry.identifier))
    ELSE IF field_entry.type_metadata.field_type = "OBJECT"
    THEN ReadObject(toks, pos, depth,
                    get_definition(definition, field_entry.identifier),
                    get_field_value(definition, field_entry.identifier))
    ELSE Bad(<<>>, "NotImplementedError")

\* loads (and load): the whole token sequence, read from its start.
loads(data, definition, class_reference) ==
    _read_structure(data, 0, definition, class_reference, 0)

(***************************************************************************)
(* The inputs: declared structures and their instances.                    *)
(***************************************************************************)
\* "bsor_length" of the fixed-size lists of the tests.
FixedLength == 2

Nullable(type) == type \o NoneSuffix
ListOf(type) == ListPrefix \o type \o <<"]">>

ScalarTypes == {T_int, T_float, T_str, T_bytes, T_PublicKey, T_XTestSubStruct}
ItemTypes == ScalarTypes \cup {Nullable(t) : t \in ScalarTypes}
ListTypes == {ListOf(t) : t \in ItemTypes}
PlainTypes == ScalarTypes \cup ListTypes
FieldTypeNames == PlainTypes \cup {Nullable(t) : t \in PlainTypes}

\* The metadata a field of the type may declare beside its id.
MetadataOf(type, id) ==
    {[bsor_id |-> id]}
    \cup (IF StartsWith(type, ListPrefix)
          THEN {[bsor_id |-> id, bsor_length |-> FixedLength]} ELSE {})
    \cup (IF type \in {T_float, Nullable(T_float)}
          THEN {[bsor_id |-> id, bsor_type |-> "DOUBLE"]} ELSE {})

\* The declared structures: a field A of any type, alone or followed by an
\* integer or string field B whose id may repeat A's.
Dataclasses ==
    LET As == UNION {{DataclassField("A", t, md) : md \in MetadataOf(t, 1)} :
                        t \in FieldTypeNames}
        Bs == {DataclassField("B", t, [bsor_id |-> id]) :
                  t \in {T_int, T_str}, id \in {1, 2}}
    IN  {[name |-> "XTestStruct", fields |-> <<a>>] : a \in As}
        \cup {[name |-> "XTestStruct", fields |-> <<a, b>>] :
                 a \in As, b \in Bs}

IntValues == {VInt(0), VInt(1), VInt(-130)}
FloatValues == {VFloat(0), VFloat(2), VFloat(3)}
StrValues == {VStr(<<>>), VStr(<<104, 105>>), VStr(<<233>>)}
BytesValues == {VBytes(<<>>), VBytes(<<1>>), VBytes(<<7, 8>>)}
PublicKeyValues == {VPublicKey(7)}
SubStructValues ==
    {VObj("XTestSubStruct", [SubIntField |-> i, SubStringField |-> t]) :
        i \in {VInt(0), VInt(5)}, t \in {VStr(<<>>), VStr(<<104, 105>>)}}

\* The values an item of a list may hold: a smaller choice of each type.
ItemValuesOf(type) ==
    LET base == IF EndsWith(type, NoneSuffix) THEN Slice(type, 0, 7) ELSE type
        values ==
            CASE base = T_int -> {VInt(0), VInt(5)}
              [] base = T_float -> {VFloat(2)}
              [] base = T_str -> {VStr(<<>>), VStr(<<104, 105>>)}
              [] base = T_bytes -> {VBytes(<<>>), VBytes(<<7, 8>>)}
              [] base = T_PublicKey -> PublicKeyValues
              [] base = T_XTestSubStruct ->
                    {VObj("XTestSubStruct",
                          [SubIntField |-> VInt(0), SubStringField |-> VStr(<<>>)]),
                     VObj("XTestSubStruct",
                          [SubIntField |-> VInt(5),
                           SubStringField |-> VStr(<<104, 105>>)])}
    IN  values \cup (IF EndsWith(type, NoneSuffix) THEN {None} ELSE {})

\* The values a field declared with the type may hold.
ValuesOf(type) ==
    LET base == IF EndsWith(type, NoneSuffix) THEN Slice(type, 0, 7) ELSE type
        values ==
            CASE base = T_int -> IntValues
              [] base = T_float -> FloatValues
              [] base = T_str -> StrValues
              [] base = T_bytes -> BytesValues
              [] base = T_PublicKey -> PublicKeyValues
              [] base = T_XTestSubStruct -> SubStructValues
              [] OTHER ->
                    {VList(l) :
                        l \in UNION {[1..n -> ItemValuesOf(Slice(base, 5, 1))] :
                                        n \in 0..MaxListLen}}
    IN  values \cup (IF EndsWith(type, NoneSuffix) THEN {None} ELSE {})

\* The instances of a declared structure.
InstancesOf(class_object) ==
    IF Len(class_object.fields) = 1
    THEN {VObj(class_object.name, [A |-> a]) :
             a \in ValuesOf(class_object.fields[1].type)}
    ELSE {VObj(class_object.name, [A |-> a, B |-> b]) :
             a \in ValuesOf(class_object.fields[1].type),
             b \in ValuesOf(class_object.fields[2].type)}

\* A token sequence with one token overwritten by a small integer.
Overwritten(toks) ==
    {[toks EXCEPT ![i] = push_int(n)] : i \in 1..Len(toks), n \in 0..MaxWireInt}

(***************************************************************************)
(* The state machine: a caller declares a structure, builds its            *)
(* Definition, encodes an instance with dumps and decodes a token          *)
(* sequence with loads.                                                    *)
(***************************************************************************)
VARIABLES
    pc,                 \* "declared", "built", "dumped", "loaded",
                        \* "reencoded"
    dataclass_object,   \* the declared structure
    definition,         \* the result of DataclassDefinition(...)
    object,             \* the instance given to dumps
    dumped,             \* the result of dumps
    data,               \* the token sequence given to loads
    loaded,             \* the result of loads
    reencoded_data      \* the result of dumps of the instance loads returned

vars ==
    <<pc, dataclass_object, definition, object, dumped, data, loaded,
      reencoded_data>>

Init ==
    /\ pc = "declared"
    /\ dataclass_object \in Dataclasses
    /\ definition = None
    /\ object = None
    /\ dumped = None
    /\ data = <<>>
    /\ loaded = None
    /\ reencoded_data = None

\* DataclassDefinition(dataclass_object, structure_metadata)
Build ==
    /\ pc = "declared"
    /\ definition' = DataclassDefinition(dataclass_object, structure_metadata)
    /\ pc' = "built"
    /\ UNCHANGED <<dataclass_object, object, dumped, data, loaded, reencoded_data>>

\* dumps(x, structure_metadata)
Dumps ==
    /\ pc = "built"
    /\ \E x \in InstancesOf(dataclass_object) :
          /\ object' = x
          /\ dumped' = dumps(x, dataclass_object, structure_metadata)
    /\ pc' = "dumped"
    /\ UNCHANGED <<dataclass_object, definition, data, loaded, reencoded_data>>

\* loads(data, definition, class): of what dumps returned, or of that with
\* one token overwritten.
Loads ==
    /\ pc = "dumped"
    /\ dumped.ok
    /\ definition.ok
    /\ \E d \in {Tokens(dumped.ev)} \cup Overwritten(Tokens(dumped.ev)) :
          /\ data' = d
          /\ loaded' = loads(d, definition.v, dataclass_object)
    /\ pc' = "loaded"
    /\ UNCHANGED <<dataclass_object, definition, object, dumped,
                   reencoded_data>>

\* dumps(file_structure, structure_metadata) of the instance loads returned
Reencode ==
    /\ pc = "loaded"
    /\ loaded.ok
    /\ reencoded_data' = dumps(loaded.v, dataclass_object, structure_metadata)
    /\ pc' = "reencoded"
    /\ UNCHANGED <<dataclass_object, definition, object, dumped, data,
                   loaded>>

Next == Build \/ Dumps \/ Loads \/ Reencode

Spec == Init /\ [][Next]_vars

(***************************************************************************)
(* What the claims are stated with: the declaration of a field as the      *)
(* caller wrote it, and the events of one structure block.                 *)
(***************************************************************************)
DeclNullable(field) == EndsWith(field.type, NoneSuffix)
DeclBase(field) ==
    IF DeclNullable(field) THEN Slice(field.type, 0, 7) ELSE field.type
DeclIsList(field) == StartsWith(DeclBase(field), ListPrefix)
DeclItem(field) == Slice(DeclBase(field), 5, 1)
DeclFixed(field) == "bsor_length" \in DOMAIN field.metadata

\* The zero default of a declared type, if it has one.
ZeroDefault(field) ==
    CASE DeclBase(field) = T_int -> <<VInt(0)>>
      [] DeclBase(field) = T_str -> <<VStr(<<>>)>>
      [] DeclBase(field) = T_bytes -> <<VBytes(<<>>)>>
      [] OTHER -> <<>>

DistinctIds(class_object) ==
    \A i, j \in 1..Len(class_object.fields) :
        i # j => class_object.fields[i].metadata.bsor_id
                 # class_object.fields[j].metadata.bsor_id

\* The index after the last event of the structure block opened by the
\* "count" event i: its "end" event or, in a call cut short, the end.
BlockEnd(ev, i) ==
    LET ends == {j \in (i + 1)..Len(ev) :
                    ev[j].site = "end" /\ ev[j].depth = ev[i].depth}
    IN  IF ends = {} THEN Len(ev) + 1
        ELSE CHOOSE j \in ends : \A k \in ends : j <= k

BlockComplete(ev, i) ==
    \E j \in (i + 1)..Len(ev) : ev[j].site = "end" /\ ev[j].depth = ev[i].depth

\* The "id" events of the structure block opened by the "count" event i.
BlockIds(ev, i) ==
    {j \in (i + 1)..(BlockEnd(ev, i) - 1) :
        ev[j].site = "id" /\ ev[j].depth = ev[i].depth}

Encoded == pc \in {"dumped", "loaded", "reencoded"}
Decoded == pc \in {"loaded", "reencoded"}
Untampered == data = Tokens(dumped.ev)

(***************************************************************************)
(* C1. Round trip: dumps succeeds on every instance and loads of what it   *)
(* returned gives back an instance equal to the one encoded, field by      *)
(* field (stated for the structures whose ids are distinct).               *)
(***************************************************************************)
C1_RoundTrip ==
    (Encoded /\ DistinctIds(dataclass_object))
        => /\ dumped.ok
           /\ (Decoded /\ Untampered) => (loaded.ok /\ loaded.v = object)

(***************************************************************************)
(* C2. Minimality: in every structure block written, at any depth, no id   *)
(* is written for a declared field that is nullable and holds null, nor    *)
(* for one that is not nullable and holds the zero default of its type     *)
(* (stated for the structures whose ids are distinct).                     *)
(***************************************************************************)
C2_Elidable(field, object_value) ==
    LET field_value == getattr(object_value, field.name)
    IN  IF DeclNullable(field) THEN field_value = None
        ELSE ZeroDefault(field) # <<>> /\ field_value = ZeroDefault(field)[1]

C2_Minimality ==
    Encoded =>
        \A i \in 1..Len(dumped.ev) :
            LET e == dumped.ev[i]
            IN  (/\ e.site = "count"
                 /\ e.object_value.k = "obj"
                 /\ DistinctIds(e.class_object))
                => \A n \in 1..Len(e.class_object.fields) :
                      LET field == e.class_object.fields[n]
                      IN  C2_Elidable(field, e.object_value)
                          => \A j \in BlockIds(dumped.ev, i) :
                                dumped.ev[j].id # field.metadata.bsor_id

(***************************************************************************)
(* C3. Whenever _write_structure completes, at any depth, the count token  *)
(* it wrote equals the number of field ids it wrote after it for that      *)
(* structure.                                                              *)
(***************************************************************************)
C3_CountMatchesFields ==
    Encoded =>
        \A i \in 1..Len(dumped.ev) :
            (dumped.ev[i].site = "count" /\ BlockComplete(dumped.ev, i))
            => item_to_int(dumped.ev[i].tok.item)
               = Cardinality(BlockIds(dumped.ev, i))

\* A completed encoding with a nested block of two fields inside a
\* top-level block of two fields.
C3_Witness ==
    /\ Encoded
    /\ dumped.ok
    /\ item_to_int(dumped.ev[1].tok.item) = 2
    /\ \E i \in 2..Len(dumped.ev) :
          /\ dumped.ev[i].site = "count"
          /\ dumped.ev[i].depth = 1
          /\ item_to_int(dumped.ev[i].tok.item) = 2

\* The "id" events loads read for the top-level structure.
TopIdEvents ==
    {j \in 1..Len(loaded.rd) :
        loaded.rd[j].site = "id" /\ loaded.rd[j].depth = 0}

\* The field ids loads read for the top-level structure.
TopIds == {loaded.rd[j].id : j \in TopIdEvents}

\* The last top-level "id" event carrying the identifier.
LastOccurrence(field_identifier) ==
    CHOOSE j \in TopIdEvents :
        /\ loaded.rd[j].id = field_identifier
        /\ \A k \in TopIdEvents :
              loaded.rd[k].id = field_identifier => k <= j

\* Whether `value` is what the token tok decodes to for the declared field.
IsWireValue(field, tok, value) ==
    CASE DeclBase(field) = T_int -> value = VInt(item_to_int(tok.item))
      [] DeclBase(field) = T_str ->
            /\ utf8_decode(tok.item).ok
            /\ value = VStr(utf8_decode(tok.item).v)
      [] DeclBase(field) = T_bytes -> value = VBytes(tok.item)
      [] DeclBase(field) = T_float ->
            IF "bsor_type" \in DOMAIN field.metadata
            THEN Len(tok.item) = 8 /\ value = VFloat(struct_unpack_d(tok.item))
            ELSE Len(tok.item) = 4 /\ value = VFloat(struct_unpack_f(tok.item))
      [] DeclBase(field) = T_PublicKey ->
            /\ PublicKey_from_bytes(tok.item).ok
            /\ value = PublicKey_from_bytes(tok.item).v
      [] DeclIsList(field) -> value.k = "list"
      [] OTHER -> value.k = "obj"

(***************************************************************************)
(* C4. Back-fill on decode: in every instance loads returns, a declared    *)
(* field whose id is not among the ids read for the structure holds null   *)
(* if it is nullable, else 0, "" or empty bytes for int, str and bytes;    *)
(* a declared field whose id is among them holds the value decoded from    *)
(* the wire for that id, not a back-filled one.                            *)
(***************************************************************************)
C4_FieldHolds(field, value) ==
    IF field.metadata.bsor_id \notin TopIds
    THEN IF DeclNullable(field) THEN value = None
         ELSE ZeroDefault(field) # <<>> => value = ZeroDefault(field)[1]
    ELSE IsWireValue(
             field,
             loaded.rd[LastOccurrence(field.metadata.bsor_id) + 1].tok,
             value)

C4_Backfill ==
    (Decoded /\ loaded.ok) =>
        \A n \in 1..Len(dataclass_object.fields) :
            /\ dataclass_object.fields[n].name \in DOMAIN loaded.v.v
            /\ C4_FieldHolds(dataclass_object.fields[n],
                             loaded.v.v[dataclass_object.fields[n].name])

\* Whether an "id" event of loads carries an id its structure does not
\* declare.
UnknownId(e) ==
    /\ e.site = "id"
    /\ \A n \in 1..Len(e.class_object.fields) :
          e.class_object.fields[n].metadata.bsor_id # e.id

(***************************************************************************)
(* C5. Unknown field id is fatal: when loads reads, at any depth, a field  *)
(* id that the structure being decoded does not declare, the call ends in  *)
(* an error, returns no instance, and that id token is the last token it   *)
(* took from the stream.                                                   *)
(***************************************************************************)
C5_UnknownIdFatal ==
    Decoded =>
        \A j \in 1..Len(loaded.rd) :
            UnknownId(loaded.rd[j])
            => /\ ~loaded.ok
               /\ loaded.v = None
               /\ j = Len(loaded.rd)

\* loads ended by an undeclared id read inside a nested structure, with
\* tokens left in the stream.
C5_Witness ==
    /\ Decoded
    /\ ~loaded.ok
    /\ loaded.err = "ValueError: Unexpected field identifier"
    /\ Len(loaded.rd) < Len(data)
    /\ UnknownId(loaded.rd[Len(loaded.rd)])
    /\ loaded.rd[Len(loaded.rd)].depth = 1

\* The first declared field, A, and the value the encoded instance holds
\* for it.
FieldA == dataclass_object.fields[1]
ValueA == getattr(object, FieldA.name)

\* The events that start the encoding of one list slot of field A: a nil
\* flag, a scalar item value or the count of an item structure.
SlotStarts ==
    {j \in 1..Len(dumped.ev) :
        \/ dumped.ev[j].site = "nil"
        \/ /\ dumped.ev[j].site = "value"
           /\ dumped.ev[j].depth = 0
           /\ dumped.ev[j].id = FieldA.metadata.bsor_id
        \/ dumped.ev[j].site = "count" /\ dumped.ev[j].depth = 1}

(***************************************************************************)
(* C6. Fixed-length list: for a list field declared with bsor_length n,    *)
(* whenever dumps succeeds it has written no runtime count token and       *)
(* exactly n element encodings for the field, whatever list the instance   *)
(* holds; loads of what was written reads no count token, ends without     *)
(* error having taken every token, and returns a list of n elements        *)
(* (stated for the structures whose ids are distinct).                     *)
(***************************************************************************)
C6_FixedLength ==
    (/\ Encoded
     /\ dumped.ok
     /\ DistinctIds(dataclass_object)
     /\ DeclIsList(FieldA)
     /\ DeclFixed(FieldA)
     /\ ValueA.k = "list")
    => /\ \A j \in 1..Len(dumped.ev) : dumped.ev[j].site # "len"
       /\ Cardinality(SlotStarts) = FieldA.metadata.bsor_length
       /\ (Decoded /\ Untampered)
          => /\ loaded.ok
             /\ Len(loaded.rd) = Len(data)
             /\ \A j \in 1..Len(loaded.rd) : loaded.rd[j].site # "len"
             /\ Len(loaded.v.v[FieldA.name].v) = FieldA.metadata.bsor_length

\* The presence flags dumps wrote, in order.
FlagsWritten ==
    LET flags == SelectSeq(dumped.ev,
                           LAMBDA e : e.site \in {"nil", "present"})
    IN  [i \in 1..Len(flags) |-> flags[i].site]

\* The presence flags the items of a list call for, in order.
FlagsOf(items) ==
    [i \in 1..Len(items) |-> IF items[i] = None THEN "nil" ELSE "present"]

(***************************************************************************)
(* C7. Nullable list elements: for a list field whose declared item type   *)
(* is nullable, whatever the item type, dumps succeeds and writes one      *)
(* presence flag per slot, in order, 0 for a null item and 1 before the    *)
(* encoding of any other; loads of what was written returns a list with    *)
(* null in the same slots; and loads fails at a presence flag that is      *)
(* neither 0 nor 1 (stated for the structures whose ids are distinct and   *)
(* for lists of the declared length).                                      *)
(***************************************************************************)
C7_NullableItems ==
    (/\ Encoded
     /\ DistinctIds(dataclass_object)
     /\ DeclIsList(FieldA)
     /\ ~DeclNullable(FieldA)
     /\ EndsWith(DeclItem(FieldA), NoneSuffix)
     /\ ValueA.k = "list"
     /\ DeclFixed(FieldA) => Len(ValueA.v) = FieldA.metadata.bsor_length)
    => /\ dumped.ok
       /\ FlagsWritten = FlagsOf(ValueA.v)
       /\ (Decoded /\ Untampered)
          => /\ loaded.ok
             /\ FlagsOf(loaded.v.v[FieldA.name].v) = FlagsOf(ValueA.v)
       /\ Decoded
          => \A j \in 1..Len(loaded.rd) :
                (/\ loaded.rd[j].site = "flag"
                 /\ loaded.rd[j].tok.op \notin {"OP_0", "OP_1"})
                => ~loaded.ok /\ j = Len(loaded.rd)

(***************************************************************************)
(* C8. Duplicate field ids are rejected at build time: every Definition    *)
(* that DataclassDefinition built without error has pairwise distinct      *)
(* field ids.                                                              *)
(***************************************************************************)
C8_DistinctIdsEnforced ==
    (pc # "declared" /\ definition.ok) => DistinctIds(dataclass_object)

(***************************************************************************)
(* C9. Absent field without a default is fatal: loads returns no instance  *)
(* unless every declared field that is not nullable and is a float, a      *)
(* list or an object was read from the wire; when such a field is absent   *)
(* the call ends in an error.                                              *)
(***************************************************************************)
C9_AbsentNoDefaultFatal ==
    (Decoded /\ loaded.ok) =>
        \A n \in 1..Len(dataclass_object.fields) :
            LET field == dataclass_object.fields[n]
            IN  (~DeclNullable(field) /\ ZeroDefault(field) = <<>>
                 /\ DeclBase(field) # T_PublicKey)
                => /\ field.metadata.bsor_id \in TopIds
                   /\ field.name \in DOMAIN loaded.v.v
                   /\ loaded.v.v[field.name] # None

\* loads of a stream that does not carry the non-nullable float, list or
\* object field A: the call ends in the constructor's error.
C9_Witness ==
    /\ Decoded
    /\ ~DeclNullable(FieldA)
    /\ ZeroDefault(FieldA) = <<>>
    /\ DeclBase(FieldA) # T_PublicKey
    /\ FieldA.metadata.bsor_id \notin TopIds
    /\ Len(loaded.rd) >= 1
    /\ ~loaded.ok
    /\ loaded.err = "TypeError: __init__() missing required argument"

(***************************************************************************)
(* C10. List and Object fields are never elided by value: for a list or    *)
(* object field holding a value that is not null, dumps writes the field's *)
(* id, counted in the structure's count, and then the field's encoding: a  *)
(* count token 0 for an empty list without declared length, a structure    *)
(* block with count 0 for an object whose fields are all elided.           *)
(***************************************************************************)
C10_NeverElided ==
    (/\ Encoded
     /\ DeclIsList(FieldA) \/ DeclBase(FieldA) = T_XTestSubStruct
     /\ ValueA # None)
    => /\ Len(dumped.ev) >= 2
       /\ item_to_int(dumped.ev[1].tok.item) >= 1
       /\ dumped.ev[2].site = "id"
       /\ dumped.ev[2].id = FieldA.metadata.bsor_id
       /\ (ValueA = VList(<<>>) /\ ~DeclFixed(FieldA))
          => /\ Len(dumped.ev) >= 3
             /\ dumped.ev[3].site = "len"
             /\ dumped.ev[3].tok = push_int(0)
       /\ (ValueA.k = "obj"
           /\ \A n \in 1..Len(XTestSubStruct.fields) :
                 getattr(ValueA, XTestSubStruct.fields[n].name)
                 = ZeroDefault(XTestSubStruct.fields[n])[1])
          => /\ Len(dumped.ev) >= 4
             /\ dumped.ev[3].site = "count"
             /\ dumped.ev[3].depth = 1
             /\ dumped.ev[3].tok = push_int(0)
             /\ dumped.ev[4].site = "end"

\* The place in its structure's declaration of the field an "id" event of
\* loads names, 0 when the structure declares no such field.
DeclIndex(e) ==
    LET hits == {n \in 1..Len(e.class_object.fields) :
                    e.class_object.fields[n].metadata.bsor_id = e.id}
    IN  IF hits = {} THEN 0 ELSE CHOOSE n \in hits : \A m \in hits : n <= m

\* Whether the "id" events j < k of loads belong to the same structure
\* block: same depth, and no block of that depth opened between them.
SameBlock(j, k) ==
    /\ loaded.rd[j].site = "id"
    /\ loaded.rd[k].site = "id"
    /\ loaded.rd[j].depth = loaded.rd[k].depth
    /\ \A m \in (j + 1)..(k - 1) :
          ~(loaded.rd[m].site = "count"
            /\ loaded.rd[m].depth = loaded.rd[j].depth)

\* Whether the tokens loads took are what an encoder that keeps the
\* declaration order and elides defaults would have written: in every
\* block the fields come in declaration order, none twice, and no int,
\* str or bytes field that is not nullable carries its zero default.
Canonical ==
    /\ \A j, k \in 1..Len(loaded.rd) :
          (j < k /\ SameBlock(j, k))
          => DeclIndex(loaded.rd[j]) < DeclIndex(loaded.rd[k])
    /\ \A j \in 1..Len(loaded.rd) :
          (loaded.rd[j].site = "id" /\ DeclIndex(loaded.rd[j]) > 0)
          => LET field ==
                     loaded.rd[j].class_object.fields[DeclIndex(loaded.rd[j])]
             IN  (~DeclNullable(field) /\ ZeroDefault(field) # <<>>)
                 => loaded.rd[j + 1].tok.item # <<>>

\* Whether the sequence s is a prefix of the sequence t.
IsPrefix(s, t) == Len(s) <= Len(t) /\ s = SubSeq(t, 1, Len(s))

(***************************************************************************)
(* C11. Re-encoding reproduces the wire data: when loads succeeded on a    *)
(* stream written in declaration order with defaults elided, dumps of the  *)
(* instance it returned succeeds and gives a prefix of that stream, the    *)
(* whole stream when loads took every token, and writes no top-level       *)
(* field id that loads did not read (stated for the structures whose ids   *)
(* are distinct).                                                          *)
(***************************************************************************)
C11_Reencoding ==
    (/\ pc = "reencoded"
     /\ DistinctIds(dataclass_object)
     /\ Canonical)
    => /\ reencoded_data.ok
       /\ IsPrefix(Tokens(reencoded_data.ev), data)
       /\ Len(loaded.rd) = Len(data) => Tokens(reencoded_data.ev) = data
       /\ \A j \in 1..Len(reencoded_data.ev) :
             (reencoded_data.ev[j].site = "id"
              /\ reencoded_data.ev[j].depth = 0)
             => reencoded_data.ev[j].id \in TopIds

\* The "id" events of the structure block that the "count" event i of
\* loads opens: those of its depth among the events that follow it, up to
\* the first event of a shallower depth or the next block of its depth.
ReadBlockIds(i) ==
    {j \in (i + 1)..Len(loaded.rd) :
        /\ loaded.rd[j].site = "id"
        /\ loaded.rd[j].depth = loaded.rd[i].depth
        /\ \A m \in (i + 1)..(j - 1) :
              /\ loaded.rd[m].depth >= loaded.rd[i].depth
              /\ ~(loaded.rd[m].site = "count"
                   /\ loaded.rd[m].depth = loaded.rd[i].depth)}

\* The number of passes of range(field_count).
Passes(field_count) == IF field_count < 0 THEN 0 ELSE field_count

(***************************************************************************)
(* C12. Exact token consumption: when loads succeeds, the tokens it took   *)
(* are the first tokens of the stream, in order and without gaps; they     *)
(* start with a count token; every structure block read, at any depth,     *)
(* holds as many field ids as its count token says; and every id token is  *)
(* followed by the first token of that field's value.  Nothing after the   *)
(* block is taken: the tokens that follow it stay in the stream.           *)
(***************************************************************************)
C12_ExactConsumption ==
    (Decoded /\ loaded.ok)
    => /\ Len(loaded.rd) <= Len(data)
       /\ \A j \in 1..Len(loaded.rd) : loaded.rd[j].tok = data[j]
       /\ Len(loaded.rd) >= 1
       /\ loaded.rd[1].site = "count"
       /\ loaded.rd[1].depth = 0
       /\ \A i \in 1..Len(loaded.rd) :
             loaded.rd[i].site = "count"
             => Cardinality(ReadBlockIds(i))
                = Passes(item_to_int(loaded.rd[i].tok.item))
       /\ \A j \in 1..Len(loaded.rd) :
             loaded.rd[j].site = "id"
             => /\ j < Len(loaded.rd)
                /\ \/ /\ loaded.rd[j + 1].site \in {"value", "len", "flag"}
                      /\ loaded.rd[j + 1].depth = loaded.rd[j].depth
                   \/ /\ loaded.rd[j + 1].site = "count"
                      /\ loaded.rd[j + 1].depth = loaded.rd[j].depth + 1

\* A successful loads that read a nested block and a field after it, and
\* left tokens in the stream.
C12_Witness ==
    /\ Decoded
    /\ loaded.ok
    /\ Len(loaded.rd) < Len(data)
    /\ \E i, j \in 1..Len(loaded.rd) :
          /\ i < j
          /\ loaded.rd[i].site = "count"
          /\ loaded.rd[i].depth = 1
          /\ item_to_int(loaded.rd[i].tok.item) >= 1
          /\ loaded.rd[j].site = "id"
          /\ loaded.rd[j].depth = 0

\* Whether `value` is something PublicKey.from_bytes returns for a payload
\* among the tokens of the stream given to loads.
FromCodec(value) ==
    \E j \in 1..Len(data) :
        /\ PublicKey_from_bytes(data[j].item).ok
        /\ value = PublicKey_from_bytes(data[j].item).v

(***************************************************************************)
(* C13. Custom-scalar values come from the custom codec: in every instance *)
(* loads returns, a field declared PublicKey holds null, and then only if  *)
(* it is declared nullable, or a value PublicKey.from_bytes returned for a *)
(* payload of the stream; likewise every item of a list of PublicKey; and  *)
(* dumps of that instance does not fail in the encoder factory.            *)
(***************************************************************************)
C13_CustomFromCodec ==
    (Decoded /\ loaded.ok)
    => /\ \A n \in 1..Len(dataclass_object.fields) :
             LET field == dataclass_object.fields[n]
                 value == loaded.v.v[field.name]
             IN  /\ DeclBase(field) = T_PublicKey
                    => IF value = None THEN DeclNullable(field)
                       ELSE FromCodec(value)
                 /\ (/\ DeclIsList(field)
                     /\ DeclItem(field) \in {T_PublicKey, Nullable(T_PublicKey)}
                     /\ value # None)
                    => \A i \in 1..Len(value.v) :
                          IF value.v[i] = None
                          THEN DeclItem(field) = Nullable(T_PublicKey)
                          ELSE FromCodec(value.v[i])
       /\ pc = "reencoded"
          => reencoded_data.err
             \notin {"AttributeError: to_bytes",
                     "TypeError: 'NoneType' object is not callable"}

====
